---- MODULE Spec2Model ----
(***************************************************************************)
(* Kinematics engine of the rock-climbing robot (src/src/kinematics.ts):   *)
(* configuration indexing, configuration/vector conversion, forward        *)
(* kinematics with its save/apply/restore protocol, chain extraction, the  *)
(* CCD inverse-kinematics loop and the finite-difference Jacobian.         *)
(*                                                                         *)
(* includes, startsWith, endsWith, substring and the default sort are      *)
(* computed on the characters of the names.  Numbers are tagged: a JavaScript number that is an     *)
(* integer, the value undefined, or NaN.  Angles are measured in quarter   *)
(* turns, which makes every rotation matrix an integer matrix; lengths are *)
(* integers.  atan2 is evaluated to the nearest quarter turn.              *)
(***************************************************************************)
EXTENDS Integers, Sequences, FiniteSets, TLC

VARIABLES tree, yup, map, qConfigIndex, qConfigIndexReversed, qConfigLength,
          rot, last, ik

vars == <<tree, yup, map, qConfigIndex, qConfigIndexReversed, qConfigLength,
          rot, last, ik>>

(***************************************************************************)
(* Bounds of the model.                                                    *)
(***************************************************************************)
\* joint angles given by callers range over 0..MaxAngle quarter turns
MaxAngle == 1
\* maxIterations given to inverseKinematics ranges over 0..MaxIter
MaxIter == 2

(***************************************************************************)
(* Node names.                                                             *)
(***************************************************************************)
nScene == "Scene"
nBody == "Body"
nBackUpperL == "RJoint_Back_Upper_Z_L"
nBackLowerL == "RJoint_Back_Lower_Z_L"
nBackLowerR == "RJoint_Back_Lower_Z_R"
nFrontLowerL == "RJoint_Front_Lower_Z_L"
nFrontLowerR == "RJoint_Front_Lower_Z_R"
nFrontUpperL == "RJoint_Front_Upper_XYZ_L"
nNeck == "RJoint_Neck"
nPad == "Pad_Z_1"
nEffBackL == "Effector_Back_L"
nEffFrontL == "Effector_Front_L"
nEffHead == "Effector_Head"
nGhost == "RJoint_Tail_Z_1"
nNoEff == "Effector_Tail"

\* UTF-16 code units of the characters used in names and labels
CharCode ==
    ("/" :> 47) @@ ("1" :> 49) @@ ("B" :> 66) @@ ("E" :> 69) @@ ("F" :> 70) @@ ("H" :> 72) @@ ("J" :> 74) @@ ("L" :> 76) @@ ("N" :> 78) @@ ("P" :> 80) @@ ("R" :> 82) @@ ("S" :> 83) @@ ("T" :> 84) @@ ("U" :> 85) @@ ("X" :> 88) @@ ("Y" :> 89) @@ ("Z" :> 90) @@ ("_" :> 95) @@ ("a" :> 97) @@ ("c" :> 99) @@ ("d" :> 100) @@ ("e" :> 101) @@ ("f" :> 102) @@ ("i" :> 105) @@ ("k" :> 107) @@ ("l" :> 108) @@ ("n" :> 110) @@ ("o" :> 111) @@ ("p" :> 112) @@ ("r" :> 114) @@ ("t" :> 116) @@ ("w" :> 119) @@ ("x" :> 120) @@ ("y" :> 121) @@ ("z" :> 122)

sRJoint == "RJoint_"
sXYZ == "_XYZ_"
sZ == "_Z_"
sSlashX == "/x"
sSlashY == "/y"
sSlashZ == "/z"

\* no node (null parent, undefined map entry)
NoNode == ""

(***************************************************************************)
(* String operations of the JavaScript runtime.                            *)
(***************************************************************************)
Includes(s, pat) ==
    \E i \in 0..(Len(s) - Len(pat)) : SubSeq(s, i + 1, i + Len(pat)) = pat

StartsWith(s, pat) ==
    Len(s) >= Len(pat) /\ SubSeq(s, 1, Len(pat)) = pat

EndsWith(s, pat) ==
    Len(s) >= Len(pat) /\ SubSeq(s, Len(s) - Len(pat) + 1, Len(s)) = pat

\* jLabel.substring(0, jLabel.length - 2)
DropLast2(s) == SubSeq(s, 1, Len(s) - 2)

MinOf(a, b) == IF a < b THEN a ELSE b

\* a < b in the order of Array.prototype.sort() without comparator
StrLess(a, b) ==
    \E k \in 0..MinOf(Len(a), Len(b)) :
        /\ SubSeq(a, 1, k) = SubSeq(b, 1, k)
        /\ \/ k = Len(a) /\ k < Len(b)
           \/ /\ k < Len(a)
              /\ k < Len(b)
              /\ CharCode[SubSeq(a, k + 1, k + 1)]
                    < CharCode[SubSeq(b, k + 1, k + 1)]

Range(f) == {f[i] : i \in DOMAIN f}

\* Body applied to the value of v, v evaluated once (const x = v; Body(x))
Bind(v, Body(_)) == CHOOSE r \in {Body(x) : x \in {v}} : TRUE

RECURSIVE SortedSeq(_)
SortedSeq(S) ==
    IF S = {} THEN <<>>
    ELSE LET m == CHOOSE x \in S : \A y \in S \ {x} : StrLess(x, y)
         IN  <<m>> \o SortedSeq(S \ {m})

\* the keys left in insertion order
sortObjectKeys_unsorted(keys) == keys

\* Object.keys(obj).sort() re-inserted in that order; obj given as its key list
sortObjectKeys(keys) == SortedSeq(Range(keys))

(***************************************************************************)
(* Numbers: integers, undefined and NaN.                                   *)
(***************************************************************************)
Num(n) == [t |-> "num", v |-> n]
Undefined == [t |-> "undefined", v |-> 0]
NaN == [t |-> "NaN", v |-> 0]
IsNum(a) == a.t = "num"

NAdd(a, b) == IF IsNum(a) /\ IsNum(b) THEN Num(a.v + b.v) ELSE NaN
NSub(a, b) == IF IsNum(a) /\ IsNum(b) THEN Num(a.v - b.v) ELSE NaN
NMul(a, b) == IF IsNum(a) /\ IsNum(b) THEN Num(a.v * b.v) ELSE NaN
NNeg(a) == IF IsNum(a) THEN Num(0 - a.v) ELSE NaN
\* a >= b in place of a > b
NGt_orEqual(a, b) == IsNum(a) /\ IsNum(b) /\ a.v >= b.v

\* a > b and a < b are false when either side is not a number
NGt(a, b) == IsNum(a) /\ IsNum(b) /\ a.v > b.v
NLt(a, b) == IsNum(a) /\ IsNum(b) /\ a.v < b.v

\* cosine and sine of an angle in quarter turns
Cos4(a) ==
    IF ~IsNum(a) THEN NaN
    ELSE Num(CASE a.v % 4 = 0 -> 1 [] a.v % 4 = 1 -> 0
               [] a.v % 4 = 2 -> -1 [] OTHER -> 0)
Sin4(a) ==
    IF ~IsNum(a) THEN NaN
    ELSE Num(CASE a.v % 4 = 0 -> 0 [] a.v % 4 = 1 -> 1
               [] a.v % 4 = 2 -> 0 [] OTHER -> -1)

(***************************************************************************)
(* Vectors and transforms (three.js Vector3, Matrix4, Euler).  A transform *)
(* is its rotation block R (rows) and its translation column p.            *)
(***************************************************************************)
Vec(x, y, z) == <<Num(x), Num(y), Num(z)>>
VSub(a, b) == <<NSub(a[1], b[1]), NSub(a[2], b[2]), NSub(a[3], b[3])>>
VAdd(a, b) == <<NAdd(a[1], b[1]), NAdd(a[2], b[2]), NAdd(a[3], b[3])>>
VScale(a, s) == <<NMul(a[1], s), NMul(a[2], s), NMul(a[3], s)>>
VDot(a, b) == NAdd(NAdd(NMul(a[1], b[1]), NMul(a[2], b[2])), NMul(a[3], b[3]))
VCross(a, b) ==
    <<NSub(NMul(a[2], b[3]), NMul(a[3], b[2])),
      NSub(NMul(a[3], b[1]), NMul(a[1], b[3])),
      NSub(NMul(a[1], b[2]), NMul(a[2], b[1]))>>
lengthSq(a) == VDot(a, a)

Identity4 ==
    [R |-> <<Vec(1, 0, 0), Vec(0, 1, 0), Vec(0, 0, 1)>>, p |-> Vec(0, 0, 0)]

\* Matrix4.makeRotationFromEuler for order 'XYZ'
EulerXYZ(r) ==
    LET a == Cos4(r.x)  b == Sin4(r.x)
        c == Cos4(r.y)  d == Sin4(r.y)
        e == Cos4(r.z)  f == Sin4(r.z)
        ae == NMul(a, e)  af == NMul(a, f)
        be == NMul(b, e)  bf == NMul(b, f)
    IN  << <<NMul(c, e), NNeg(NMul(c, f)), d>>,
           <<NAdd(af, NMul(be, d)), NSub(ae, NMul(bf, d)), NNeg(NMul(b, c))>>,
           <<NSub(bf, NMul(ae, d)), NAdd(be, NMul(af, d)), NMul(a, c)>> >>

Col(R, k) == <<R[1][k], R[2][k], R[3][k]>>

\* Matrix4.multiplyMatrices on affine transforms
Compose(A, B) ==
    LET Row(i) == <<VDot(A.R[i], Col(B.R, 1)), VDot(A.R[i], Col(B.R, 2)),
                    VDot(A.R[i], Col(B.R, 3))>>
    IN  [R |-> <<Row(1), Row(2), Row(3)>>,
         p |-> <<NAdd(VDot(A.R[1], B.p), A.p[1]),
                 NAdd(VDot(A.R[2], B.p), A.p[2]),
                 NAdd(VDot(A.R[3], B.p), A.p[3])>>]

\* all-NaN rotation block
NaNBlock == << <<NaN, NaN, NaN>>, <<NaN, NaN, NaN>>, <<NaN, NaN, NaN>> >>

\* Object3D.updateMatrix: the local transform composed from position and the
\* quaternion of the Euler rotation; one non-number angle makes every
\* quaternion component, and so the whole rotation block, NaN
LocalMatrix(r, pos) ==
    [R |-> IF IsNum(r.x) /\ IsNum(r.y) /\ IsNum(r.z) THEN EulerXYZ(r)
           ELSE NaNBlock,
     p |-> pos]

(***************************************************************************)
(* Joint trees handed to the constructor.  A tree gives the children of    *)
(* every node, the local position of every node and the engine's root; the *)
(* root hangs under the host's scene node.  The constructor reads the four *)
(* RJoint_*_Lower_Z_* joints, so every tree has them.  driven names the    *)
(* joints that callers' configurations give values to.                     *)
(***************************************************************************)
Quadruped ==
    [root |-> nBody,
     children |->
        (nScene :> <<nBody>>) @@
        (nBody :> <<nBackUpperL, nBackLowerR, nFrontLowerL, nFrontLowerR>>) @@
        (nBackUpperL :> <<nBackLowerL>>) @@
        (nBackLowerL :> <<nEffBackL>>) @@
        (nBackLowerR :> <<>>) @@ (nFrontLowerL :> <<>>) @@
        (nFrontLowerR :> <<>>) @@ (nEffBackL :> <<>>),
     pos |->
        (nBody :> Vec(0, 0, 0)) @@ (nBackUpperL :> Vec(0, 0, 0)) @@
        (nBackLowerL :> Vec(1, 0, 0)) @@ (nEffBackL :> Vec(1, 0, 0)) @@
        (nBackLowerR :> Vec(0, 1, 0)) @@ (nFrontLowerL :> Vec(0, 0, 1)) @@
        (nFrontLowerR :> Vec(0, 1, 1)),
     driven |-> {nBackUpperL, nBackLowerL},
     effectors |-> {nEffBackL}]

Biped ==
    [root |-> nBody,
     children |->
        (nScene :> <<nBody>>) @@
        (nBody :> <<nFrontUpperL, nNeck, nBackLowerL, nBackLowerR,
                    nFrontLowerR>>) @@
        (nFrontUpperL :> <<nFrontLowerL>>) @@
        (nFrontLowerL :> <<nEffFrontL>>) @@
        (nNeck :> <<nPad>>) @@ (nPad :> <<nEffHead>>) @@
        (nBackLowerL :> <<>>) @@ (nBackLowerR :> <<>>) @@
        (nFrontLowerR :> <<>>) @@ (nEffFrontL :> <<>>) @@
        (nEffHead :> <<>>),
     pos |->
        (nBody :> Vec(0, 0, 0)) @@ (nFrontUpperL :> Vec(0, 0, 0)) @@
        (nFrontLowerL :> Vec(1, 0, 0)) @@ (nEffFrontL :> Vec(1, 0, 0)) @@
        (nNeck :> Vec(0, 0, 1)) @@ (nPad :> Vec(0, 0, 1)) @@
        (nEffHead :> Vec(0, 0, 1)) @@
        (nBackLowerL :> Vec(0, 1, 0)) @@ (nBackLowerR :> Vec(0, 1, 1)) @@
        (nFrontLowerR :> Vec(1, 1, 0)),
     driven |-> {nFrontUpperL},
     effectors |-> {nEffFrontL, nEffHead}]

Trees == {Quadruped, Biped}

\* Object3D.parent
ParentOf(t, n) ==
    IF \E p \in DOMAIN t.children : n \in Range(t.children[p])
    THEN CHOOSE p \in DOMAIN t.children : n \in Range(t.children[p])
    ELSE NoNode

\* Object3D.traverse from n: n, then each child's subtree in order
RECURSIVE Traverse(_, _)
RECURSIVE TraverseAll(_, _, _)
TraverseAll(t, cs, i) ==
    IF i > Len(cs) THEN <<>>
    ELSE Traverse(t, cs[i]) \o TraverseAll(t, cs, i + 1)
Traverse(t, n) == <<n>> \o TraverseAll(t, t.children[n], 1)

\* the keys of the name -> node object, in insertion order
RECURSIVE InsertKeys(_, _, _)
InsertKeys(names, i, keys) ==
    IF i > Len(names) THEN keys
    ELSE InsertKeys(names, i + 1,
                    IF names[i] \in Range(keys) THEN keys
                    ELSE Append(keys, names[i]))
getNameChildMap(t) == InsertKeys(Traverse(t, t.root), 1, <<>>)

(***************************************************************************)
(* Configuration indexer.                                                  *)
(***************************************************************************)
EmptyIndex == [l \in {} |-> 0]

\* qConfigIndex[label] = count; qConfigIndexReversed.push(label)
PushLabel(acc, label) ==
    [ind |-> (label :> Len(acc.rev)) @@ acc.ind,
     rev |-> Append(acc.rev, label)]

RECURSIVE confIndexFrom(_, _, _)
confIndexFrom(m, i, acc) ==
    IF i > Len(m) THEN acc
    ELSE LET joint == m[i]
         IN  IF Includes(joint, sXYZ)
             THEN confIndexFrom(m, i + 1,
                      PushLabel(PushLabel(PushLabel(acc, joint \o sSlashX),
                                          joint \o sSlashY),
                                joint \o sSlashZ))
             ELSE IF Includes(joint, sZ)
             THEN confIndexFrom(m, i + 1, PushLabel(acc, joint))
             ELSE confIndexFrom(m, i + 1, acc)

confIndex(m) == confIndexFrom(m, 1, [ind |-> EmptyIndex, rev |-> <<>>])

(***************************************************************************)
(* Configurations: a sequence of entries in key order, each a joint name   *)
(* with a number or a dictionary of x, y, z.                               *)
(***************************************************************************)
Dict(x, y, z) == [t |-> "dict", x |-> x, y |-> y, z |-> z]
isDictionary(v) == v.t = "dict"
Entry(j, v) == [joint |-> j, val |-> v]
Joints(q) == {q[i].joint : i \in DOMAIN q}
\* q[j], undefined when q has no key j
Get(q, j) ==
    IF j \in Joints(q) THEN (CHOOSE e \in Range(q) : e.joint = j).val
    ELSE Undefined
\* q[j] = v: overwrite in place or insert at the end
Put(q, j, v) ==
    IF j \in Joints(q)
    THEN [i \in DOMAIN q |-> IF q[i].joint = j THEN Entry(j, v) ELSE q[i]]
    ELSE Append(q, Entry(j, v))
\* the same joints with the same values
SameConfig(p, q) ==
    Joints(p) = Joints(q) /\ \A j \in Joints(p) : Get(p, j) = Get(q, j)

\* the value fill(-1000) leaves in a slot no entry of q writes
FillValue == -1000

RECURSIVE getCurrentStateConfigFrom(_, _, _, _)
getCurrentStateConfigFrom(m, r, i, q) ==
    IF i > Len(m) THEN q
    ELSE LET name == m[i]
         IN  getCurrentStateConfigFrom(m, r, i + 1,
                 IF ~StartsWith(name, sRJoint) THEN q
                 ELSE IF Includes(name, sXYZ)
                 THEN Put(q, name, Dict(r[name].x, r[name].y, r[name].z))
                 ELSE IF Includes(name, sZ) THEN Put(q, name, r[name].z)
                 ELSE q)

getCurrentStateConfig(m, r) == getCurrentStateConfigFrom(m, r, 1, <<>>)

\* one pass of the loop of setConfiguration; this.map[joint] is undefined for
\* a name that is no key of the map, and reading its rotation throws
RECURSIVE setConfigurationFrom(_, _, _, _, _)
setConfigurationFrom(m, y, r, q, i) ==
    IF i > Len(q) THEN [rot |-> r, raised |-> FALSE]
    ELSE LET joint == q[i].joint
             qv == q[i].val
         IN  IF joint \notin Range(m) THEN [rot |-> r, raised |-> TRUE]
             ELSE setConfigurationFrom(m, y,
                      [r EXCEPT ![joint] =
                          IF isDictionary(qv)
                          THEN [x |-> qv.x, y |-> qv.y, z |-> qv.z]
                          ELSE IF ~y
                          THEN [x |-> @.x, y |-> @.y, z |-> qv]
                          ELSE [x |-> @.x, y |-> qv, z |-> @.z]],
                      q, i + 1)

setConfiguration(m, y, r, q) == setConfigurationFrom(m, y, r, q, 1)

(***************************************************************************)
(* Forward kinematics.                                                     *)
(***************************************************************************)
\* Object3D.matrixWorld after updateMatrixWorld: parent's world transform
\* times the local transform; the root's parent is the untransformed scene
RECURSIVE matrixWorld(_, _, _)
matrixWorld(t, r, n) ==
    IF n = t.root THEN LocalMatrix(r[n], t.pos[n])
    ELSE Compose(matrixWorld(t, r, ParentOf(t, n)), LocalMatrix(r[n], t.pos[n]))

NoLinks == [n \in {} |-> Identity4]

\* links[root.name] = root.matrixWorld.clone(), then the same for each child
RECURSIVE forwardKinematicsRec(_, _, _, _)
RECURSIVE forwardKinematicsRecAll(_, _, _, _, _)
forwardKinematicsRecAll(t, r, cs, i, links) ==
    IF i > Len(cs) THEN links
    ELSE forwardKinematicsRecAll(t, r, cs, i + 1,
                                 forwardKinematicsRec(t, r, cs[i], links))
forwardKinematicsRec(t, r, root, links) ==
    forwardKinematicsRecAll(t, r, t.children[root], 1,
                            (root :> matrixWorld(t, r, root)) @@ links)

\* the tree after the call, whether the call threw, and the returned links
forwardKinematics(t, m, y, r, q) ==
    LET q_old == getCurrentStateConfig(m, r)
    IN  Bind(setConfiguration(m, y, r, q),
             LAMBDA applied :
                IF applied.raised
                THEN [rot |-> applied.rot, raised |-> TRUE, links |-> NoLinks]
                ELSE Bind(setConfiguration(m, y, applied.rot, q_old),
                          LAMBDA restored :
                             [rot |-> restored.rot, raised |-> restored.raised,
                              links |-> forwardKinematicsRec(t, applied.rot,
                                                             t.root, NoLinks)]))

(***************************************************************************)
(* Configuration <-> vector.  A vector is a sequence; slot i of the code   *)
(* is element i + 1.                                                       *)
(***************************************************************************)
\* vec[this.qConfigIndex[label]] = v; an undefined index writes no slot
SetSlot(ind, vec, label, v) ==
    IF label \in DOMAIN ind THEN [vec EXCEPT ![ind[label] + 1] = v] ELSE vec

RECURSIVE configToVectorFrom(_, _, _, _)
configToVectorFrom(ind, q, i, vec) ==
    IF i > Len(q) THEN vec
    ELSE LET joint == q[i].joint
             qv == q[i].val
         IN  configToVectorFrom(ind, q, i + 1,
                 IF isDictionary(qv)
                 THEN SetSlot(ind,
                          SetSlot(ind,
                              SetSlot(ind, vec, joint \o sSlashX, qv.x),
                              joint \o sSlashY, qv.y),
                          joint \o sSlashZ, qv.z)
                 ELSE SetSlot(ind, vec, joint, qv))

configToVector(ind, len, q) ==
    configToVectorFrom(ind, q, 1, [i \in 1..len |-> Num(FillValue)])

\* every branch assigning the x field
SetField_alwaysX(q, base, f, v) ==
    LET cur == IF base \in Joints(q) THEN Get(q, base)
               ELSE Dict(Undefined, Undefined, Undefined)
    IN  IF ~isDictionary(cur) THEN q ELSE Put(q, base, [cur EXCEPT !.x = v])

\* q[base] created as {} when undefined, then one of its fields assigned
SetField(q, base, f, v) ==
    LET cur == IF base \in Joints(q) THEN Get(q, base)
               ELSE Dict(Undefined, Undefined, Undefined)
    IN  IF ~isDictionary(cur) THEN q
        ELSE Put(q, base,
                 CASE f = "x" -> [cur EXCEPT !.x = v]
                   [] f = "y" -> [cur EXCEPT !.y = v]
                   [] OTHER -> [cur EXCEPT !.z = v])

RECURSIVE vectorToConfigFrom(_, _, _, _)
vectorToConfigFrom(rev, vec, i, q) ==
    IF i > Len(vec) THEN q
    ELSE LET jLabel == rev[i]
         IN  vectorToConfigFrom(rev, vec, i + 1,
                 IF EndsWith(jLabel, sSlashX)
                 THEN SetField(q, DropLast2(jLabel), "x", vec[i])
                 ELSE IF EndsWith(jLabel, sSlashY)
                 THEN SetField(q, DropLast2(jLabel), "y", vec[i])
                 ELSE IF EndsWith(jLabel, sSlashZ)
                 THEN SetField(q, DropLast2(jLabel), "z", vec[i])
                 ELSE Put(q, jLabel, vec[i]))

vectorToConfig(rev, vec) == vectorToConfigFrom(rev, vec, 1, <<>>)

\* lines 305-307
getCurrentStateVector(ind, len, m, r) ==
    configToVector(ind, len, getCurrentStateConfig(m, r))

(***************************************************************************)
(* Chain extraction.                                                       *)
(***************************************************************************)
Reverse(s) == [i \in 1..Len(s) |-> s[Len(s) + 1 - i]]

RECURSIVE getChainFrom(_, _, _)
getChainFrom(t, current, chain) ==
    IF current = NoNode \/ current = t.root THEN chain
    ELSE getChainFrom(t, ParentOf(t, current),
                      IF StartsWith(current, sRJoint)
                      THEN Append(chain, current) ELSE chain)

\* the chain returned without chain.reverse()
getChain_notReversed(t, m, endEffector) ==
    getChainFrom(t,
        IF endEffector \in Range(m) THEN ParentOf(t, endEffector) ELSE NoNode,
        <<endEffector>>)

getChain(t, m, endEffector) ==
    Reverse(getChainFrom(t,
                IF endEffector \in Range(m) THEN ParentOf(t, endEffector)
                ELSE NoNode,
                <<endEffector>>))

(***************************************************************************)
(* Inverse kinematics: one DOF update and one sweep of the CCD loop.       *)
(***************************************************************************)
getPosition(mat) == mat.p

\* Math.atan2(s, c) to the nearest quarter turn; exact when the two
\* projected vectors are parallel or perpendicular
Atan2Q(s, c) ==
    IF ~(IsNum(s) /\ IsNum(c)) THEN NaN
    ELSE LET abs(n) == IF n < 0 THEN 0 - n ELSE n
         IN  IF abs(s.v) > abs(c.v) THEN Num(IF s.v > 0 THEN 1 ELSE -1)
             ELSE IF c.v >= 0 THEN Num(0)
             ELSE Num(IF s.v >= 0 THEN 2 ELSE -2)

\* the visit order of one sweep: chain from its last joint to its first,
\* x, y, z for a 3-DOF joint and z alone otherwise
RECURSIVE SweepOrder(_, _)
SweepOrder(chain, j) ==
    IF j < 1 THEN <<>>
    ELSE (IF Includes(chain[j], sXYZ)
          THEN <<[jointName |-> chain[j], dof |-> "x"],
                 [jointName |-> chain[j], dof |-> "y"],
                 [jointName |-> chain[j], dof |-> "z"]>>
          ELSE <<[jointName |-> chain[j], dof |-> "z"]>>)
         \o SweepOrder(chain, j - 1)

\* s holds the locals vec, fwd and dErr, the tree's rotations, and whether a
\* statement threw; c holds the engine's fields and the call's arguments
DofStep(c, s, jointName, dof) ==
    LET label == IF Includes(jointName, sXYZ)
                 THEN jointName \o "/" \o dof ELSE jointName
    IN  IF s.raised \/ label \notin DOMAIN c.ind THEN s
        ELSE IF jointName \notin DOMAIN s.fwd THEN [s EXCEPT !.raised = TRUE]
        ELSE
        LET i == c.ind[label]
            matrix == s.fwd[jointName]
            axis == CASE dof = "x" -> Col(matrix.R, 1)
                      [] dof = "y" -> Col(matrix.R, 2)
                      [] OTHER -> Col(matrix.R, 3)
            p_joint == getPosition(matrix)
            p_end == getPosition(s.fwd[c.joint])
            v_current == VSub(p_end, p_joint)
            v_target == VSub(c.target, p_joint)
            v_curr_proj == VSub(v_current, VScale(axis, VDot(v_current, axis)))
            v_targ_proj == VSub(v_target, VScale(axis, VDot(v_target, axis)))
        IN  IF NLt(lengthSq(v_curr_proj), Num(1))
               \/ NLt(lengthSq(v_targ_proj), Num(1))
            THEN s
            ELSE
            LET dot == VDot(v_curr_proj, v_targ_proj)
                cross == VCross(v_curr_proj, v_targ_proj)
                theta == Atan2Q(VDot(cross, axis), dot)
                vec == [s.vec EXCEPT ![i + 1] = NAdd(@, NMul(c.alpha, theta))]
            IN  Bind(forwardKinematics(c.tree, c.map, c.yup, s.rot,
                                       vectorToConfig(c.rev, vec)),
                     LAMBDA f :
                        IF f.raised THEN [s EXCEPT !.vec = vec, !.rot = f.rot,
                                                   !.raised = TRUE]
                        ELSE [vec |-> vec, fwd |-> f.links, rot |-> f.rot,
                              dErr |-> VSub(c.target,
                                            getPosition(f.links[c.joint])),
                              raised |-> FALSE])

RECURSIVE SweepFrom(_, _, _, _)
SweepFrom(c, s, order, k) ==
    IF k > Len(order) THEN s
    ELSE Bind(DofStep(c, s, order[k].jointName, order[k].dof),
              LAMBDA s2 : SweepFrom(c, s2, order, k + 1))

\* lines 186-240: the body of the while loop before count++
Sweep(c, s, chain) == SweepFrom(c, s, SweepOrder(chain, Len(chain)), 1)

\* lines 130-146: the loop of calcJacobian, slot i of the code at k = i + 1
RECURSIVE calcJacobianFrom(_, _, _, _, _, _)
calcJacobianFrom(c, cVec, pos, dq, k, s) ==
    IF k > c.len \/ s.raised THEN s
    ELSE LET vec == [cVec EXCEPT ![k] = NAdd(@, Num(dq))]
             Div(a) == IF IsNum(a) THEN Num(a.v \div dq) ELSE NaN
             Step(f) ==
                IF f.raised \/ c.joint \notin DOMAIN f.links
                THEN [s EXCEPT !.rot = f.rot, !.raised = TRUE]
                ELSE LET diff == VSub(getPosition(f.links[c.joint]), pos)
                     IN  [rot |-> f.rot, raised |-> FALSE,
                          jac |-> Append(s.jac, <<Div(diff[1]), Div(diff[2]),
                                                  Div(diff[3])>>)]
         IN  Bind(Bind(forwardKinematics(c.tree, c.map, c.yup, s.rot,
                                         vectorToConfig(c.rev, vec)), Step),
                  LAMBDA s2 : calcJacobianFrom(c, cVec, pos, dq, k + 1, s2))

(***************************************************************************)
(* Inputs of the calls.                                                    *)
(***************************************************************************)
Angles == {Num(a) : a \in 0..MaxAngle}

\* the values a well-formed entry gives to a joint
ValuesFor(j) ==
    IF Includes(j, sXYZ) THEN {Dict(x, y, z) : x, y, z \in Angles}
    ELSE Angles

RECURSIVE ConfigsOver(_)
ConfigsOver(js) ==
    IF js = <<>> THEN {<<>>}
    ELSE LET rest == ConfigsOver(Tail(js))
         IN  rest \cup {<<Entry(Head(js), v)>> \o r :
                            v \in ValuesFor(Head(js)), r \in rest}

\* partial configurations over the driven joints, keys in name order
WellFormed(t) == ConfigsOver(SortedSeq(t.driven))

\* a 3-DOF joint given its z component only
ZOnly(t) ==
    {<<Entry(j, Dict(Undefined, Undefined, a))>> :
        j \in {d \in t.driven : Includes(d, sXYZ)}, a \in Angles}

\* a one-entry configuration with an entry for a joint that is no node of
\* the tree, before or after it; the value of that entry is never read
WithUnknown(t) ==
    UNION {{<<Entry(nGhost, Num(0))>> \o q, q \o <<Entry(nGhost, Num(0))>>} :
              q \in {w \in WellFormed(t) : Len(w) = 1}}

SetInputs(t) == WellFormed(t) \cup ZOnly(t) \cup WithUnknown(t)
FKInputs(t) == WellFormed(t) \cup WithUnknown(t)

Targets == {Vec(2, 0, 0), Vec(1, 1, 0), Vec(9, 0, 0)}
Alphas == {Num(1)}
Limits == {Num(0)}
JacobianPositions == {Vec(2, 0, 0)}
EffectorInputs(t) == t.effectors \cup {nNoEff}

(***************************************************************************)
(* The engine as a state machine.  A call runs to completion and leaves    *)
(* its arguments, the tree it started from and its result in last; the     *)
(* host takes the result before the next call.  inverseKinematics is       *)
(* followed sweep by sweep, its locals in ik.                              *)
(***************************************************************************)
NoCall == [op |-> "none"]
IkIdle == [active |-> FALSE]

Nodes(t) == Range(Traverse(t, t.root))

Init ==
    /\ tree \in Trees
    /\ yup \in BOOLEAN
    /\ map = sortObjectKeys(getNameChildMap(tree))
    /\ qConfigIndex = confIndex(map).ind
    /\ qConfigIndexReversed = confIndex(map).rev
    /\ qConfigLength = Len(qConfigIndexReversed)
    /\ rot = [n \in Nodes(tree) |-> [x |-> Num(0), y |-> Num(0), z |-> Num(0)]]
    /\ last = NoCall
    /\ ik = IkIdle

engine == <<tree, yup, map, qConfigIndex, qConfigIndexReversed, qConfigLength>>

Idle == last.op = "none" /\ ~ik.active

SetConfigurationCall ==
    /\ Idle
    /\ \E q \in SetInputs(tree) :
          \E s \in {setConfiguration(map, yup, rot, q)} :
              /\ rot' = s.rot
              /\ last' = [op |-> "setConfiguration", q |-> q,
                          rotBefore |-> rot, raised |-> s.raised]
    /\ UNCHANGED <<engine, ik>>

GetCurrentStateConfigCall ==
    /\ Idle
    /\ last' = [op |-> "getCurrentStateConfig", rotBefore |-> rot,
                raised |-> FALSE, res |-> getCurrentStateConfig(map, rot)]
    /\ UNCHANGED <<engine, rot, ik>>

GetCurrentStateVectorCall ==
    /\ Idle
    /\ last' = [op |-> "getCurrentStateVector", rotBefore |-> rot,
                raised |-> FALSE,
                res |-> getCurrentStateVector(qConfigIndex, qConfigLength,
                                              map, rot)]
    /\ UNCHANGED <<engine, rot, ik>>

ForwardKinematicsCall ==
    /\ Idle
    /\ \E q \in FKInputs(tree) :
          \E f \in {forwardKinematics(tree, map, yup, rot, q)} :
              /\ rot' = f.rot
              /\ last' = [op |-> "forwardKinematics", q |-> q,
                          rotBefore |-> rot, raised |-> f.raised,
                          res |-> f.links]
    /\ UNCHANGED <<engine, ik>>

ConfigToVectorCall ==
    /\ Idle
    /\ \E q \in WellFormed(tree) \cup {getCurrentStateConfig(map, rot)} :
          last' = [op |-> "configToVector", q |-> q, rotBefore |-> rot,
                   raised |-> FALSE,
                   res |-> configToVector(qConfigIndex, qConfigLength, q)]
    /\ UNCHANGED <<engine, rot, ik>>

\* the host hands the vector it got straight back
VectorToConfigCall ==
    /\ last.op = "configToVector"
    /\ last' = [op |-> "vectorToConfig", q |-> last.q, vec |-> last.res,
                rotBefore |-> rot, raised |-> FALSE,
                res |-> vectorToConfig(qConfigIndexReversed, last.res)]
    /\ UNCHANGED <<engine, rot, ik>>

GetChainCall ==
    /\ Idle
    /\ \E e \in Range(map) \cup {nNoEff} :
          last' = [op |-> "getChain", endEffector |-> e, rotBefore |-> rot,
                   raised |-> FALSE, res |-> getChain(tree, map, e)]
    /\ UNCHANGED <<engine, rot, ik>>

CalcJacobianCall ==
    /\ Idle
    /\ \E joint \in EffectorInputs(tree), pos \in JacobianPositions :
          LET q == getCurrentStateConfig(map, rot)
              c == [tree |-> tree, map |-> map, yup |-> yup,
                    rev |-> qConfigIndexReversed, len |-> qConfigLength,
                    joint |-> joint]
          IN  \E s \in {calcJacobianFrom(c,
                           configToVector(qConfigIndex, qConfigLength, q),
                           pos, 1, 1,
                           [rot |-> rot, raised |-> FALSE, jac |-> <<>>])} :
              /\ rot' = s.rot
              /\ last' = [op |-> "calcJacobian", q |-> q, joint |-> joint,
                          rotBefore |-> rot, raised |-> s.raised,
                          res |-> s.jac]
    /\ UNCHANGED <<engine, ik>>

\* the engine's fields and the call's arguments, as DofStep reads them
IkContext ==
    [tree |-> tree, map |-> map, yup |-> yup, ind |-> qConfigIndex,
     rev |-> qConfigIndexReversed, joint |-> ik.joint, target |-> ik.target,
     alpha |-> ik.alpha]

\* start configurations: the current one, whole or cut down to the driven joints
IKConfigs ==
    LET cur == getCurrentStateConfig(map, rot)
    IN  {cur, SelectSeq(cur, LAMBDA e : e.joint \in tree.driven)}

\* lines 177-183
InverseKinematicsStart ==
    /\ Idle
    /\ \E q \in IKConfigs :
          \E vec \in {configToVector(qConfigIndex, qConfigLength, q)} :
          \E f \in {forwardKinematics(tree, map, yup, rot,
                         vectorToConfig(qConfigIndexReversed, vec))} :
              \E joint \in EffectorInputs(tree), target \in Targets,
                 alpha \in Alphas, limit \in Limits,
                 maxIterations \in 0..MaxIter :
                 /\ rot' = f.rot
                 /\ IF f.raised \/ joint \notin DOMAIN f.links
                    THEN /\ last' = [op |-> "inverseKinematics", q |-> q,
                                     joint |-> joint, rotBefore |-> rot,
                                     raised |-> TRUE]
                         /\ ik' = ik
                    ELSE /\ last' = last
                         /\ ik' = [active |-> TRUE, q |-> q, joint |-> joint,
                                   target |-> target, alpha |-> alpha,
                                   limit |-> limit,
                                   maxIterations |-> maxIterations,
                                   rotBefore |-> rot, count |-> 0,
                                   sweeps |-> 0, vec |-> vec,
                                   fwd |-> f.links,
                                   dErr0 |-> VSub(target,
                                                  getPosition(f.links[joint])),
                                   dErr |-> VSub(target,
                                                 getPosition(f.links[joint])),
                                   chain |-> getChain(tree, map, joint)]
    /\ UNCHANGED engine

\* count <= maxIterations in place of count < maxIterations
LoopCondition_throughMax ==
    NGt(lengthSq(ik.dErr), ik.limit) /\ ik.count <= ik.maxIterations

\* line 185: the condition of the while loop
LoopCondition ==
    NGt(lengthSq(ik.dErr), ik.limit) /\ ik.count < ik.maxIterations

\* lines 186-241: one pass of the while loop
InverseKinematicsSweep ==
    /\ ik.active
    /\ LoopCondition
    /\ \E s \in {Sweep(IkContext,
                       [vec |-> ik.vec, fwd |-> ik.fwd, rot |-> rot,
                        dErr |-> ik.dErr, raised |-> FALSE],
                       ik.chain)} :
           /\ rot' = s.rot
           /\ IF s.raised
              THEN /\ last' = [op |-> "inverseKinematics", q |-> ik.q,
                               joint |-> ik.joint, rotBefore |-> ik.rotBefore,
                               raised |-> TRUE]
                   /\ ik' = IkIdle
              ELSE /\ last' = last
                   /\ ik' = [ik EXCEPT !.vec = s.vec, !.fwd = s.fwd,
                                       !.dErr = s.dErr,
                                       !.count = ik.count + 1,
                                       !.sweeps = ik.sweeps + 1]
    /\ UNCHANGED engine

\* lines 244-245
InverseKinematicsReturn ==
    /\ ik.active
    /\ ~LoopCondition
    /\ last' = [op |-> "inverseKinematics", q |-> ik.q, joint |-> ik.joint,
                target |-> ik.target, limit |-> ik.limit,
                maxIterations |-> ik.maxIterations,
                rotBefore |-> ik.rotBefore, raised |-> FALSE,
                sweeps |-> ik.sweeps, dErr0 |-> ik.dErr0,
                res |-> [finalQ |-> vectorToConfig(qConfigIndexReversed, ik.vec),
                         dErr |-> ik.dErr, count |-> ik.count,
                         fwd |-> ik.fwd]]
    /\ ik' = IkIdle
    /\ UNCHANGED <<engine, rot>>

\* the host takes the result of the finished call
HostTakesResult ==
    /\ last.op # "none"
    /\ last' = NoCall
    /\ UNCHANGED <<engine, rot, ik>>

Next ==
    \/ SetConfigurationCall
    \/ GetCurrentStateConfigCall
    \/ GetCurrentStateVectorCall
    \/ ForwardKinematicsCall
    \/ ConfigToVectorCall
    \/ VectorToConfigCall
    \/ GetChainCall
    \/ CalcJacobianCall
    \/ InverseKinematicsStart
    \/ InverseKinematicsSweep
    \/ InverseKinematicsReturn
    \/ HostTakesResult

Spec == Init /\ [][Next]_vars

(***************************************************************************)
(* Properties.                                                             *)
(***************************************************************************)
\* the configuration a caller reads from the tree now, and read it before
\* the last call
ConfigNow == getCurrentStateConfig(map, rot)
ConfigBefore == getCurrentStateConfig(map, last.rotBefore)

\* the nodes the indexer gave labels to
IndexedJoints == {n \in Range(map) : Includes(n, sXYZ) \/ Includes(n, sZ)}

\* the joint, among the nodes N, a label belongs to
JointOfLabel(N, l) ==
    IF DropLast2(l) \in N /\ Includes(DropLast2(l), sXYZ)
    THEN DropLast2(l) ELSE l

\* C1: a forwardKinematics call that returns leaves getCurrentStateConfig()
\* as it was before the call and leaves every node's local rotation
\* components as they were, under either up-axis flag
C1_FKRestoresTree ==
    (last.op = "forwardKinematics" /\ ~last.raised)
        => /\ SameConfig(ConfigNow, ConfigBefore)
           /\ \A n \in Nodes(tree) : rot[n] = last.rotBefore[n]

\* C2 as stated: vectorToConfig(configToVector(q)) has exactly the joints of
\* q with exactly their values, for a q covering any subset of the joints
C2_RoundTripAnySubset ==
    last.op = "vectorToConfig" => SameConfig(last.res, last.q)

\* the value vectorToConfig gives a joint whose slots hold the filler
FillerFor(j) ==
    IF Includes(j, sXYZ)
    THEN Dict(Num(FillValue), Num(FillValue), Num(FillValue))
    ELSE Num(FillValue)

\* C2 amended: vectorToConfig(configToVector(q)) has an entry for every
\* indexed joint, q's value for each joint of q and the filler -1000 for
\* every other one; it equals q when q covers every indexed joint
C2_RoundTripFillsTheRest ==
    last.op = "vectorToConfig"
        => /\ Joints(last.res) = IndexedJoints
           /\ \A j \in Joints(last.q) : Get(last.res, j) = Get(last.q, j)
           /\ \A j \in IndexedJoints \ Joints(last.q) :
                 Get(last.res, j) = FillerFor(j)
           /\ (Joints(last.q) = IndexedJoints => SameConfig(last.res, last.q))

\* a round trip of a configuration that gives a 3-DOF joint three different
\* components and leaves other joints out
C2_Witness ==
    /\ last.op = "vectorToConfig"
    /\ nFrontUpperL \in Joints(last.q)
    /\ Get(last.q, nFrontUpperL) = Dict(Num(0), Num(1), Num(0))
    /\ Joints(last.q) # IndexedJoints

\* C3, the shape of the index: the two index tables are inverse to each other, the
\* length is the DOF count, slots follow ascending node names and a 3-DOF
\* joint holds three consecutive slots in the order /x, /y, /z
C3_IndexShape ==
    \A N \in {Nodes(tree)} :
    /\ \A l \in DOMAIN qConfigIndex :
          /\ qConfigIndex[l] \in 0..(qConfigLength - 1)
          /\ qConfigIndexReversed[qConfigIndex[l] + 1] = l
    /\ Len(qConfigIndexReversed) = qConfigLength
    /\ \A i \in 0..(qConfigLength - 1) :
          /\ qConfigIndexReversed[i + 1] \in DOMAIN qConfigIndex
          /\ qConfigIndex[qConfigIndexReversed[i + 1]] = i
    /\ qConfigLength =
          3 * Cardinality({n \in N : Includes(n, sXYZ)})
          + Cardinality({n \in N : ~Includes(n, sXYZ) /\ Includes(n, sZ)})
    /\ \A i \in 1..(qConfigLength - 1) :
          LET a == JointOfLabel(N, qConfigIndexReversed[i])
              b == JointOfLabel(N, qConfigIndexReversed[i + 1])
          IN  a = b \/ StrLess(a, b)
    /\ \A n \in N :
          Includes(n, sXYZ) =>
             \E i \in 0..(qConfigLength - 3) :
                /\ qConfigIndexReversed[i + 1] = n \o sSlashX
                /\ qConfigIndexReversed[i + 2] = n \o sSlashY
                /\ qConfigIndexReversed[i + 3] = n \o sSlashZ
    /\ \A n \in N :
          (~Includes(n, sXYZ) /\ Includes(n, sZ)) => n \in DOMAIN qConfigIndex

\* the index has that shape whenever the engine is between two calls
C3_IndexShapeBetweenCalls == Idle => C3_IndexShape

\* C3: the index has that shape after construction and between any two
\* calls, and no step of setConfiguration, forwardKinematics,
\* inverseKinematics or calcJacobian (nor of any other operation) changes the
\* index or the tree it was built from, so it has that shape for the
\* engine's lifetime
C3_IndexBijectionFixed ==
    /\ []C3_IndexShapeBetweenCalls
    /\ [][<<tree, qConfigIndex, qConfigIndexReversed, qConfigLength>>'
             = <<tree, qConfigIndex, qConfigIndexReversed, qConfigLength>>]_vars

\* an inverseKinematics call has returned on a tree with a 3-DOF joint
C3_Witness ==
    /\ last.op = "inverseKinematics"
    /\ ~last.raised
    /\ qConfigLength = 8
    /\ qConfigIndex[nFrontUpperL \o sSlashY] = 6

\* the squared residual r is above the tolerance limit
Above(r, limit) == NGt(lengthSq(r), limit)

\* C4, the state part: while a solve runs it has completed at most
\* maxIterations sweeps and its count is the number of completed sweeps; a
\* solve for an effector of the tree returns without raising, with count at
\* most maxIterations, and with count exactly maxIterations when the
\* residual is still above the tolerance
C4_SweepsBounded ==
    /\ ik.active =>
          /\ ik.sweeps <= ik.maxIterations
          /\ ik.count = ik.sweeps
    /\ (last.op = "inverseKinematics" /\ last.joint \in Nodes(tree)) =>
          /\ ~last.raised
          /\ last.res.count = last.sweeps
          /\ last.res.count <= last.maxIterations
          /\ Above(last.res.dErr, last.limit)
                => last.res.count = last.maxIterations

\* C4: inverseKinematics never raises for an effector of the tree, makes at
\* most maxIterations sweeps, each step of a running solve either ends it
\* or completes one more sweep (so it ends within maxIterations sweeps),
\* and it returns maxIterations when the target stays out of tolerance
C4_BoundedSolve ==
    /\ []C4_SweepsBounded
    /\ [][ik.active => (~ik'.active \/ ik'.count = ik.count + 1)]_vars

\* a solve ran out of iterations with the target still out of tolerance
C4_Witness ==
    /\ last.op = "inverseKinematics"
    /\ ~last.raised
    /\ last.res.count = last.maxIterations
    /\ last.res.count >= 2
    /\ Above(last.res.dErr, last.limit)

\* the start configuration of the last solve already met the tolerance
StartedConverged ==
    /\ last.op = "inverseKinematics"
    /\ ~last.raised
    /\ IsNum(lengthSq(last.dErr0))
    /\ lengthSq(last.dErr0).v <= last.limit.v

GaveZOnly ==
    /\ last.op = "setConfiguration"
    /\ ~last.raised
    /\ Len(last.q) = 1
    /\ isDictionary(last.q[1].val)
    /\ last.q[1].val.x = Undefined
    /\ last.q[1].val.y = Undefined

\* C6: after setConfiguration gave a 3-DOF joint its z component only,
\* getCurrentStateConfig reports the joint's x and y as before the call and
\* z as given
C6_ZOnlyKeepsXY ==
    GaveZOnly
        => LET j == last.q[1].joint
           IN  /\ Get(ConfigNow, j).x = Get(ConfigBefore, j).x
               /\ Get(ConfigNow, j).y = Get(ConfigBefore, j).y
               /\ Get(ConfigNow, j).z = last.q[1].val.z

\* the entries of q whose joint is a node of the tree
KnownEntries(q) == SelectSeq(q, LAMBDA e : e.joint \in Nodes(tree))

\* C7: an entry for a joint that is no node of the tree is ignored by
\* setConfiguration and forwardKinematics: nothing is raised, the other
\* entries are applied, and forwardKinematics restores the configuration
C7_UnknownJointIgnored ==
    (last.op \in {"setConfiguration", "forwardKinematics"}
        /\ KnownEntries(last.q) # last.q)
        => /\ ~last.raised
           /\ last.op = "setConfiguration" =>
                 rot = setConfiguration(map, yup, last.rotBefore,
                                        KnownEntries(last.q)).rot
           /\ last.op = "forwardKinematics" =>
                 /\ SameConfig(ConfigNow, ConfigBefore)
                 /\ last.res = forwardKinematics(tree, map, yup, last.rotBefore,
                                                 KnownEntries(last.q)).links

\* C8: after setConfiguration(q) with full values for joints of the tree,
\* getCurrentStateConfig returns q's value for every joint of q and the
\* value from before the call for every other joint, under both up-axis flags
C8_SetThenGetAgree ==
    (last.op = "setConfiguration" /\ last.q \in WellFormed(tree))
        => /\ ~last.raised
           /\ \A j \in Joints(last.q) : Get(ConfigNow, j) = Get(last.q, j)
           /\ \A j \in Joints(ConfigNow) \ Joints(last.q) :
                 Get(ConfigNow, j) = Get(ConfigBefore, j)

\* a is a proper ancestor of n
IsAncestor(a, n) == a # n /\ n \in Range(Traverse(tree, a))

\* C9: getChain(e) for a node e is the RJoint_ ancestors of e strictly
\* below the root, each once, base joint first, then e; for a name that is
\* no node it is the list of just that name; the rotations play no part
C9_ChainShape ==
    last.op = "getChain" =>
        LET e == last.endEffector
            chain == last.res
            n == Len(chain)
        IN  IF e \notin Nodes(tree) THEN chain = <<e>>
            ELSE /\ n >= 1
                 /\ chain[n] = e
                 /\ {chain[i] : i \in 1..(n - 1)} =
                       {a \in Nodes(tree) \ {tree.root} :
                           IsAncestor(a, e) /\ StartsWith(a, sRJoint)}
                 /\ \A i, j \in 1..n : i < j => IsAncestor(chain[i], chain[j])

\* the chain of an effector under two joints, asked for after the joints
\* were turned
C9_Witness ==
    /\ last.op = "getChain"
    /\ last.res = <<nBackUpperL, nBackLowerL, nEffBackL>>
    /\ rot[nBackLowerL] # [x |-> Num(0), y |-> Num(0), z |-> Num(0)]

\* C10: a solve for an effector name that is no node of the tree raises
\* nothing and returns the start configuration with a residual and a count
C10_AbsentEffectorNoProgress ==
    (last.op = "inverseKinematics" /\ last.joint \notin Nodes(tree))
        => /\ ~last.raised
           /\ SameConfig(last.res.finalQ, last.q)

\* some component of the configuration value v is the filler
HasFiller(v) ==
    IF isDictionary(v)
    THEN Num(FillValue) \in {v.x, v.y, v.z}
    ELSE v = Num(FillValue)

\* C11: getCurrentStateConfig reports exactly the nodes the indexer gave
\* labels to, getCurrentStateVector holds the filler -1000 in no slot, and a
\* configuration returned by inverseKinematics started from
\* getCurrentStateConfig() carries the filler for no joint
C11_CurrentConfigCoversIndex ==
    /\ last.op = "getCurrentStateConfig" => Joints(last.res) = IndexedJoints
    /\ last.op = "getCurrentStateVector" =>
          \A i \in 1..Len(last.res) : last.res[i] # Num(FillValue)
    /\ (last.op = "inverseKinematics" /\ ~last.raised
           /\ last.q = ConfigBefore) =>
          \A j \in Joints(last.res.finalQ) :
             ~HasFiller(Get(last.res.finalQ, j))

====
